---- MODULE Spec2Model ----
(***************************************************************************)
(* Fruitris (src/src/code.py): the tetromino simulation core, the game     *)
(* phase machine and the cooperative tick / input tasks.                   *)
(*                                                                         *)
(* The playing field of the source is 10 columns wide and SCREEN_HEIGHT-4  *)
(* rows high; the model keeps every formula of the source in terms of      *)
(* GRID_WIDTH and GRID_HEIGHT and checks them on a smaller field.          *)
(***************************************************************************)
EXTENDS Integers, Sequences, FiniteSets, TLC

\* ------------------------------------------------------------------ bounds
GRID_WIDTH == 4
GRID_HEIGHT == 3
\* pieces created by get_next_tetromino over one run of the program
MaxPieces == 1
\* the key events that can wait in buttons.events
MaxEvents == 2
\* the highest level the score steps start from
MaxLevel == 21

\* --------------------------------------------------------------- constants
TETROMINO_SIZE == 4
WINDOW_GAP == 1
SCALE == 2
HIGH_SCORE_START == 10000
\* the last tile of the tile sheet, used by the game-over wipe
GRAY_TILE == 8

SCREEN_HEIGHT == GRID_HEIGHT + WINDOW_GAP * 2 + 2

STATE_WAITING == 1
STATE_PLAYING == 2
STATE_PAUSED == 3
STATE_GAME_OVER == 4

ACTION_ROTATE == 0
ACTION_LEFT == 1
ACTION_RIGHT == 2
ACTION_SOFT_DROP == 3
ACTION_HARD_DROP == 4
ACTION_PAUSE == 5
ACTION_QUIT == 6

\* the entry None of BUTTON_MAP
NoAction == 0 - 1

Actions == ACTION_ROTATE..ACTION_QUIT

TETROMINOS ==
  << [tile |-> 3, pattern |-> << <<0,0,1,0>>, <<0,0,1,0>>, <<0,0,1,0>>, <<0,0,1,0>> >>],
     [tile |-> 1, pattern |-> << <<0,0,1,0>>, <<0,1,1,0>>, <<0,1,0,0>>, <<0,0,0,0>> >>],
     [tile |-> 2, pattern |-> << <<0,1,0,0>>, <<0,1,1,0>>, <<0,0,1,0>>, <<0,0,0,0>> >>],
     [tile |-> 6, pattern |-> << <<0,0,0,0>>, <<0,1,1,0>>, <<0,1,1,0>>, <<0,0,0,0>> >>],
     [tile |-> 4, pattern |-> << <<0,0,1,0>>, <<0,1,1,0>>, <<0,0,1,0>>, <<0,0,0,0>> >>],
     [tile |-> 5, pattern |-> << <<0,0,1,0>>, <<0,0,1,0>>, <<0,1,1,0>>, <<0,0,0,0>> >>],
     [tile |-> 7, pattern |-> << <<0,1,0,0>>, <<0,1,0,0>>, <<0,1,1,0>>, <<0,0,0,0>> >>] >>

\* the values get_random_tetromino_index can return
Indices == 0..(Len(TETROMINOS) - 1)

TSize == 0..(TETROMINO_SIZE - 1)
Cols == 0..(GRID_WIDTH - 1)
Rows == 0..(GRID_HEIGHT - 1)

Max(a, b) == IF a > b THEN a ELSE b
Min(a, b) == IF a < b THEN a ELSE b

\* ------------------------------------------------------------- tile grids
\* A TileGrid is held by rows: tg[y][x] is the source's tg[x, y].
EmptyRow == [x \in Cols |-> 0]
EmptyGrid == [y \in Rows |-> EmptyRow]
ZeroPattern == [y \in TSize |-> [x \in TSize |-> 0]]

\* TETROMINOS[value]["pattern"] as a 0-based [row][column] table
PatternOf(index) ==
  [y \in TSize |-> [x \in TSize |-> TETROMINOS[index + 1].pattern[y + 1][x + 1]]]

TileOf(index) == TETROMINOS[index + 1].tile

\* Tetromino._grid: every set cell of value becomes the piece's tile
SetGrid(tile, value) ==
  [y \in TSize |-> [x \in TSize |-> IF value[y][x] # 0 THEN tile ELSE 0]]

\* the list built by Tetromino._rotate_right: grid[y][x] = _tilegrid[SIZE-y-1, x]
RotatedRight(tg) ==
  [y \in TSize |-> [x \in TSize |-> tg[x][TETROMINO_SIZE - y - 1]]]

\* the list built by Tetromino._rotate_left: grid[y][x] = _tilegrid[y, SIZE-x-1]
RotatedLeft(tg) ==
  [y \in TSize |-> [x \in TSize |-> tg[TETROMINO_SIZE - x - 1][y]]]

\* ----------------------------------------------------------------- pieces
\* A Tetromino object: shape index, rotation counter, tile position, 4x4 tiles.
RECURSIVE ReplayRotation(_, _)
ReplayRotation(tg, n) ==
  IF n = 0 THEN tg ELSE ReplayRotation(RotatedRight(tg), n - 1)

\* variant of the grid setter that stores the pattern and replays nothing
GridSetter_base_only(index, rotation) ==
  SetGrid(TileOf(index), PatternOf(index))

\* Tetromino.grid setter: store the pattern, then replay the stored rotation
\* with forced right rotations (a forced rotation never probes the grid).
GridSetter(index, rotation) ==
  ReplayRotation(SetGrid(TileOf(index), PatternOf(index)), rotation)

\* the offset loop of Tetromino.__init__: the row of the first set cell in
\* row-major order (0 when the pattern is empty)
RECURSIVE FirstRow(_, _)
FirstRow(tg, i) ==
  IF i = TETROMINO_SIZE * TETROMINO_SIZE THEN 0
  ELSE IF tg[i \div TETROMINO_SIZE][i % TETROMINO_SIZE] # 0 THEN i \div TETROMINO_SIZE
  ELSE FirstRow(tg, i + 1)

\* variant of the constructor that moves every new piece up by one row,
\* whatever its pattern
NewTetromino_one_up(index, offset) ==
  [index |-> index, rotation |-> 0, x |-> 0,
   y |-> IF offset THEN 0 - 1 ELSE 0,
   tg |-> GridSetter(index, 0), hidden |-> FALSE]

\* Tetromino(index, offset): rotation 0, position (0, 0) or (0, -first row)
NewTetromino(index, offset) ==
  LET tg == GridSetter(index, 0) IN
  [index |-> index, rotation |-> 0, x |-> 0,
   y |-> IF offset THEN 0 - FirstRow(tg, 0) ELSE 0,
   tg |-> tg, hidden |-> FALSE]

\* the value of the globals tetromino / tetromino_indicator before the first game
None == [index |-> -1, rotation |-> 0, x |-> 0, y |-> 0, tg |-> ZeroPattern, hidden |-> TRUE]

\* next_tetromino is built with offset=False and then rotate_left(True); its
\* place in the preview window is display layout and is not held here.
NewNext(index) ==
  [index |-> index, rotation |-> (0 - 1) % 4,
   tg |-> SetGrid(TileOf(index), RotatedLeft(GridSetter(index, 0))), hidden |-> FALSE]

\* ------------------------------------------------------------- collisions
\* The scan of Tetromino.check_collide over cell k = 4*i + j in the order of
\* the two loops. "hit" is return True, "free" is return False. The grid
\* lookup tilegrid[tile_x, tile_y] has no guard for tile_y < 0: a TileGrid
\* raises on an index outside its size, which is outcome "fault".
RECURSIVE CollideScan(_, _, _, _, _)
CollideScan(field, grid, px, py, k) ==
  IF k = TETROMINO_SIZE * TETROMINO_SIZE THEN "free"
  ELSE LET i == k \div TETROMINO_SIZE
           j == k % TETROMINO_SIZE
           tile_x == j + px
           tile_y == i + py
       IN IF grid[i][j] = 0 THEN CollideScan(field, grid, px, py, k + 1)
          ELSE IF tile_x < 0 \/ tile_x >= GRID_WIDTH THEN "hit"
          ELSE IF tile_y >= GRID_HEIGHT THEN "hit"
          ELSE IF tile_y < 0 THEN "fault"
          ELSE IF field[tile_y][tile_x] # 0 THEN "hit"
          ELSE CollideScan(field, grid, px, py, k + 1)

\* variant of the probe that drops the x offset it is given
probe_without_x(field, self, grid, x, y) == CollideScan(field, grid, self.x, self.y + y, 0)

\* self.check_collide(grid, x, y) against the global tilegrid `field`
Probe(field, self, grid, x, y) == CollideScan(field, grid, self.x + x, self.y + y, 0)

check_collide(field, self, grid, x, y) == Probe(field, self, grid, x, y) = "hit"

\* variant of move that applies the offset without asking check_collide
move_unchecked(field, self, x, y) ==
  [t |-> [self EXCEPT !.x = self.x + x, !.y = self.y + y], ret |-> TRUE, fault |-> FALSE]

\* ------------------------------------------------------- moves, rotations
\* Tetromino.move: [t: the piece afterwards, ret: the return value, fault]
move(field, self, x, y) ==
  LET p == Probe(field, self, self.tg, x, y) IN
  IF p = "fault" THEN [t |-> self, ret |-> FALSE, fault |-> TRUE]
  ELSE IF p = "hit" THEN [t |-> self, ret |-> FALSE, fault |-> FALSE]
  ELSE [t |-> [self EXCEPT !.x = self.x + x, !.y = self.y + y], ret |-> TRUE, fault |-> FALSE]

left(field, self) == move(field, self, -1, 0)
right(field, self) == move(field, self, 1, 0)

\* variant of down that asks for the row above
down_rising(field, self) == move(field, self, 0, -1)

\* Tetromino.down
down(field, self) == move(field, self, 0, 1)

\* variant of the wall kick that tries x+1 before x-1
wiggle_right_first(field, self, grid, force) ==
  LET free(dx) == Probe(field, self, grid, dx, 0) = "free"
      commit(dx) == [t |-> [self EXCEPT !.x = self.x + dx,
                                        !.tg = SetGrid(TileOf(self.index), grid)],
                     ret |-> TRUE, fault |-> FALSE]
  IN IF force \/ free(0) THEN commit(0)
     ELSE IF free(1) THEN commit(1)
     ELSE IF free(-1) THEN commit(-1)
     ELSE [t |-> self, ret |-> FALSE, fault |-> FALSE]

\* Tetromino._wiggle: the probes at x, x-1, x+1 of the if / elif chain
wiggle(field, self, grid, force) ==
  LET p0 == IF force THEN "free" ELSE Probe(field, self, grid, 0, 0)
      pl == Probe(field, self, grid, -1, 0)
      pr == Probe(field, self, grid, 1, 0)
      commit(dx) == [t |-> [self EXCEPT !.x = self.x + dx,
                                        !.tg = SetGrid(TileOf(self.index), grid)],
                     ret |-> TRUE, fault |-> FALSE]
      raise == [t |-> self, ret |-> FALSE, fault |-> TRUE]
  IN IF p0 = "fault" THEN raise
     ELSE IF p0 = "free" THEN commit(0)
     ELSE IF pl = "fault" THEN raise
     ELSE IF pl = "free" THEN commit(-1)
     ELSE IF pr = "fault" THEN raise
     ELSE IF pr = "free" THEN commit(1)
     ELSE [t |-> self, ret |-> FALSE, fault |-> FALSE]

\* Tetromino.rotate_right / rotate_left: the counter moves only on success
rotate_right(field, self, force) ==
  LET r == wiggle(field, self, RotatedRight(self.tg), force) IN
  IF r.ret THEN [r EXCEPT !.t.rotation = (self.rotation + 1) % 4] ELSE r

rotate_left(field, self, force) ==
  LET r == wiggle(field, self, RotatedLeft(self.tg), force) IN
  IF r.ret THEN [r EXCEPT !.t.rotation = (self.rotation - 1) % 4] ELSE r

\* variant of the hard drop that counts the calls of down(), the failed one too
RECURSIVE hard_drop_counting_calls(_, _, _)
hard_drop_counting_calls(field, self, spaces) ==
  LET r == down(field, self) IN
  IF r.fault THEN [t |-> self, spaces |-> spaces, fault |-> TRUE]
  ELSE IF r.ret THEN hard_drop_counting_calls(field, r.t, spaces + 1)
  ELSE [t |-> self, spaces |-> spaces + 1, fault |-> FALSE]

\* the while loop of ACTION_HARD_DROP: down() until it fails
RECURSIVE hard_drop(_, _, _)
hard_drop(field, self, spaces) ==
  LET r == down(field, self) IN
  IF r.fault THEN [t |-> self, spaces |-> spaces, fault |-> TRUE]
  ELSE IF r.ret THEN hard_drop(field, r.t, spaces + 1)
  ELSE [t |-> self, spaces |-> spaces, fault |-> FALSE]

\* variant of place that copies the pattern's 1 instead of the piece's tile
place_pattern_value(field, self) ==
  [gy \in Rows |-> [gx \in Cols |->
     LET y == gy - self.y
         x == gx - self.x
     IN IF y \in TSize /\ x \in TSize /\ self.tg[y][x] # 0 THEN 1 ELSE field[gy][gx]]]

\* variant of place that copies no cell
place_nothing(field, self) == field

\* ------------------------------------------------------- place and clear
\* Tetromino.place: copy the set cells that lie inside the grid
place(field, self) ==
  [gy \in Rows |-> [gx \in Cols |->
     LET y == gy - self.y
         x == gx - self.x
     IN IF y \in TSize /\ x \in TSize /\ self.tg[y][x] # 0
        THEN self.tg[y][x] ELSE field[gy][gx]]]

\* the "move tiles down" loops for a full row y: rows y..2 take the row
\* above them (for i in range(y, 1, -1)), then row 0 is zeroed
clear_line(field, y) ==
  [i \in Rows |-> IF i = 0 THEN EmptyRow
                  ELSE IF i >= 2 /\ i <= y THEN field[i - 1]
                  ELSE field[i]]

\* the line-clearing loop of tetromino_handler over rows y..yend-1
RECURSIVE clear_lines(_, _, _, _)
clear_lines(field, y, yend, lines) ==
  IF y >= yend THEN [grid |-> field, lines |-> lines]
  ELSE IF \A x \in Cols : field[y][x] # 0
       THEN clear_lines(clear_line(field, y), y + 1, yend, lines + 1)
       ELSE clear_lines(field, y + 1, yend, lines)

\* variant of the score setter that stores the score and leaves the high
\* score alone
set_score_plain(sw, value) ==
  [high_score |-> sw.high_score, score |-> value]

\* ---------------------------------------------------------------- scoring
\* ScoreWindow.score setter: the high score follows a larger score
set_score(sw, value) ==
  [high_score |-> IF value > sw.high_score THEN value ELSE sw.high_score,
   score |-> value]

\* /saves/fruitris.txt as the program sees it: absent, not openable, a first
\* line that int() refuses, or a first line that is the integer `value`
NoFile == [kind |-> "missing", value |-> 0]
Unreadable == [kind |-> "unreadable", value |-> 0]
Corrupt == [kind |-> "corrupt", value |-> 0]
Saved(value) == [kind |-> "int", value |-> value]

\* ScoreWindow.high_score setter
set_high_score(sw, value) == [high_score |-> value, score |-> sw.score]

\* ScoreWindow._read_save: open raises OSError (absent, not openable) and the
\* window is left alone; int() raises ValueError and os.remove is called,
\* outside any try: when it raises (removed is FALSE) the exception leaves
\* the constructor. [score_window, save_file, fault]
read_save(sw, file, removed) ==
  CASE file.kind = "int" ->
         [score_window |-> IF file.value > sw.high_score
                           THEN set_high_score(sw, file.value) ELSE sw,
          save_file |-> file, fault |-> FALSE]
    [] file.kind = "corrupt" ->
         [score_window |-> sw, save_file |-> IF removed THEN NoFile ELSE file,
          fault |-> ~removed]
    [] OTHER -> [score_window |-> sw, save_file |-> file, fault |-> FALSE]

\* ScoreWindow._update_save: the file takes the high score unless open or
\* write raises OSError (written is FALSE), which is swallowed
update_save(sw, file, written) == IF written THEN Saved(sw.high_score) ELSE file

\* ScoreWindow.save
save(sw, file, written) ==
  IF sw.score >= sw.high_score THEN update_save(sw, file, written) ELSE file

POINTS == <<40, 100, 300, 1200>>

get_lines_per_level(lvl) == lvl * 10

\* variant of add_lines that raises the level when the counter reaches level * 10
add_lines_at_threshold(lines, sw, lvl, cur) ==
  IF lines = 0 THEN [score_window |-> sw, level |-> lvl, current_lines |-> cur]
  ELSE LET sw2 == set_score(sw, sw.score + POINTS[lines] * lvl)
           cur2 == cur + lines
       IN IF cur2 >= get_lines_per_level(lvl)
          THEN [score_window |-> sw2, level |-> lvl + 1, current_lines |-> 0]
          ELSE [score_window |-> sw2, level |-> lvl, current_lines |-> cur2]

\* variant of add_lines that awards the points at the level after the level-up
add_lines_new_level(lines, sw, lvl, cur) ==
  IF lines = 0 THEN [score_window |-> sw, level |-> lvl, current_lines |-> cur]
  ELSE LET cur2 == cur + lines
           up == cur2 > get_lines_per_level(lvl)
           lvl2 == IF up THEN lvl + 1 ELSE lvl
       IN [score_window |-> set_score(sw, sw.score + POINTS[lines] * lvl2),
           level |-> lvl2, current_lines |-> IF up THEN 0 ELSE cur2]

\* add_lines: [score_window, level, current_lines] afterwards
add_lines(lines, sw, lvl, cur) ==
  IF lines = 0 THEN [score_window |-> sw, level |-> lvl, current_lines |-> cur]
  ELSE LET sw2 == set_score(sw, sw.score + POINTS[lines] * lvl)
           cur2 == cur + lines
       IN IF cur2 > get_lines_per_level(lvl)
          THEN [score_window |-> sw2, level |-> lvl + 1, current_lines |-> 0]
          ELSE [score_window |-> sw2, level |-> lvl, current_lines |-> cur2]

\* variant of get_drop_speed without the branch of level 10
get_drop_speed_to_nine(lvl) ==
  IF lvl >= 20 THEN 2
  ELSE IF lvl >= 17 THEN 3
  ELSE IF lvl >= 14 THEN 4
  ELSE IF lvl >= 11 THEN 5
  ELSE 48 - (lvl - 1) * 5

\* get_drop_speed, in sixtieths of a second (the source returns n / 60)
get_drop_speed(lvl) ==
  IF lvl >= 20 THEN 2
  ELSE IF lvl >= 17 THEN 3
  ELSE IF lvl >= 14 THEN 4
  ELSE IF lvl >= 11 THEN 5
  ELSE IF lvl = 10 THEN 6
  ELSE 48 - (lvl - 1) * 5

\* -------------------------------------------------------------- indicator
\* update_tetromino_indicator_y: the indicator is probed from row 0 with
\* offsets i = tetromino.tile_y + 1 .. GRID_HEIGHT - 1
RECURSIVE indicator_scan(_, _, _)
indicator_scan(field, ind, i) ==
  IF i >= GRID_HEIGHT THEN [t |-> [ind EXCEPT !.hidden = TRUE], fault |-> FALSE]
  ELSE LET p == Probe(field, ind, ind.tg, 0, i) IN
       IF p = "fault" THEN [t |-> ind, fault |-> TRUE]
       ELSE IF p = "hit" THEN [t |-> [ind EXCEPT !.y = i - 1, !.hidden = FALSE], fault |-> FALSE]
       ELSE indicator_scan(field, ind, i + 1)

update_tetromino_indicator_y(field, ind, t) ==
  indicator_scan(field, [ind EXCEPT !.y = 0], t.y + 1)

\* variant of get_next_tetromino that gives the active piece the index
\* drawn for the preview
get_next_tetromino_drawn(field, nxt, rnd) ==
  LET t == [NewTetromino(rnd, TRUE) EXCEPT !.x = (GRID_WIDTH - TETROMINO_SIZE) \div 2]
      i == update_tetromino_indicator_y(
             field, [NewTetromino(t.index, FALSE) EXCEPT !.x = t.x], t)
  IN [tetromino |-> t, tetromino_indicator |-> i.t, fault |-> i.fault,
      next_tetromino |-> [nxt EXCEPT !.index = rnd, !.tg = GridSetter(rnd, nxt.rotation)]]

\* get_next_tetromino: the active piece takes the preview's shape, the
\* indicator is rebuilt under it, the preview takes the random index rnd
get_next_tetromino(field, nxt, rnd) ==
  LET t == [NewTetromino(nxt.index, TRUE) EXCEPT !.x = (GRID_WIDTH - TETROMINO_SIZE) \div 2]
      i == update_tetromino_indicator_y(
             field, [NewTetromino(t.index, FALSE) EXCEPT !.x = t.x], t)
  IN [tetromino |-> t, tetromino_indicator |-> i.t, fault |-> i.fault,
      next_tetromino |-> [nxt EXCEPT !.index = rnd, !.tg = GridSetter(rnd, nxt.rotation)]]

\* ------------------------------------------------------------------ state
VARIABLES
  tilegrid,             \* the global TileGrid of placed tiles, by rows
  tetromino,            \* the active piece (None before the first game)
  tetromino_indicator,  \* the landing indicator
  next_tetromino,       \* the Next preview
  game_state,           \* STATE_WAITING .. STATE_GAME_OVER
  score_window,         \* [high_score, score]
  level,                \* level_window.value
  current_lines,        \* lines cleared since the last level-up
  last_drop_time,       \* TRUE when a manual drop left its time stamp (not None)
  pc,                   \* where tetromino_handler is suspended
  wipe_y,               \* the row game_over wiped last
  reloaded,             \* supervisor.reload() was called
  crashed,              \* a handler raised (an index outside a TileGrid)
  save_file,            \* /saves/fruitris.txt: [kind, value]
  pieces,               \* calls of get_next_tetromino so far
  last,                 \* what the last handler run did and returned
  keys_down,            \* the hardware buttons held down, as buttons has scanned them
  events,               \* buttons.events: the key events not yet taken
  button_pressed,       \* the accumulator of button_handler
  button_log            \* what button_handler did with the last event it took

\* the state of the button task: every other handler leaves it alone
button_vars == <<keys_down, events, button_pressed, button_log>>

\* the state of the game and of its tick task
game_vars == <<tilegrid, tetromino, tetromino_indicator, next_tetromino, game_state,
               score_window, level, current_lines, last_drop_time, pc, wipe_y,
               reloaded, crashed, save_file, pieces, last>>

vars == <<game_vars, button_vars>>

\* op: "none", "press", "dispatch", "skip" or "raise"; keys: the key numbers
\* of the press events taken since the last dispatch; action: what was
\* passed to do_action
ButtonLog(op, keys, action) == [op |-> op, keys |-> keys, action |-> action]

\* button_handler before its first event: no button is down, the queue of
\* buttons is empty, button_pressed = 0
ButtonsIdle ==
  /\ keys_down = {}
  /\ events = <<>>
  /\ button_pressed = 0
  /\ button_log = ButtonLog("none", {}, NoAction)

\* op: "init", "tick", "input" or the function a unit step applied; ret: what
\* it did or returned; a, b: its numbers (lines cleared, or the offsets given)
Event(op, ret, a, b) == [op |-> op, ret |-> ret, a |-> a, b |-> b]

\* get_random_tetromino_index: any index of TETROMINOS. The preview drawn at
\* the last spawn MaxPieces allows can never become a piece, and the model
\* lets that one draw return index 0 only.
get_random_tetromino_index == IF pieces + 1 < MaxPieces THEN Indices ELSE {0}

\* The save file the runs of the whole game start from. No score of a run
\* within MaxPieces reaches the high score, so the file is never written
\* there; what is read from and written to it is checked by the score steps.
SavedFiles == {NoFile}

\* The state when asyncio.run(main()) starts: module level of code.py.
Init ==
  /\ ButtonsIdle
  /\ tilegrid = EmptyGrid
  /\ tetromino = None
  /\ tetromino_indicator = None
  /\ \E index \in Indices : next_tetromino = NewNext(index)
  /\ game_state = STATE_WAITING
  /\ \E file \in SavedFiles :
       LET r == read_save([high_score |-> HIGH_SCORE_START, score |-> 0], file, TRUE) IN
       score_window = r.score_window /\ save_file = r.save_file
  /\ level = 1
  /\ current_lines = 0
  /\ last_drop_time = FALSE
  /\ pc = "loop"
  /\ wipe_y = 0
  /\ reloaded = FALSE
  /\ crashed = FALSE
  /\ pieces = 0
  /\ last = Event("init", "-", 0, 0)

Alive == ~reloaded /\ ~crashed

\* an exception leaves the handler and ends asyncio.run: nothing runs after it
Raise(op) ==
  /\ crashed' = TRUE
  /\ last' = Event(op, "raise", 0, 0)
  /\ UNCHANGED <<tilegrid, tetromino, tetromino_indicator, next_tetromino, game_state,
                 score_window, level, current_lines, last_drop_time, pc, wipe_y,
                 reloaded, save_file, pieces>>

\* ------------------------------------------------------------ reset_game
\* variant of reset_game that leaves the grid as the last game left it
reset_game_keeping_grid ==
  /\ pieces < MaxPieces
  /\ \E rnd \in get_random_tetromino_index :
       LET n == get_next_tetromino(tilegrid, next_tetromino, rnd) IN
       /\ tetromino' = n.tetromino
       /\ tetromino_indicator' = n.tetromino_indicator
       /\ next_tetromino' = [n.next_tetromino EXCEPT !.hidden = FALSE]
       /\ score_window' = set_score(score_window, 0)
       /\ level' = 1
       /\ current_lines' = 0
       /\ game_state' = STATE_PLAYING
       /\ pieces' = pieces + 1
       /\ last' = Event("input", "-", 0, 0)
       /\ UNCHANGED <<tilegrid, last_drop_time, pc, wipe_y, reloaded, crashed, save_file>>

reset_game ==
  /\ pieces < MaxPieces
  /\ \E rnd \in get_random_tetromino_index :
       LET n == get_next_tetromino(EmptyGrid, next_tetromino, rnd) IN
       IF n.fault THEN Raise("input")
       ELSE /\ tilegrid' = EmptyGrid
            /\ tetromino' = n.tetromino
            /\ tetromino_indicator' = n.tetromino_indicator
            /\ next_tetromino' = [n.next_tetromino EXCEPT !.hidden = FALSE]
            /\ score_window' = set_score(score_window, 0)
            /\ level' = 1
            /\ current_lines' = 0
            /\ game_state' = STATE_PLAYING
            /\ pieces' = pieces + 1
            /\ last' = Event("input", "-", 0, 0)
            /\ UNCHANGED <<last_drop_time, pc, wipe_y, reloaded, crashed, save_file>>

\* variant of the wipe that grays row y and every row above it
wipe_rows_above(field, y) ==
  [r \in Rows |-> IF r <= y THEN [x \in Cols |-> GRAY_TILE] ELSE field[r]]

\* ------------------------------------------------------------- game_over
\* one row of the wipe loop of game_over
wipe_row(field, y) == [field EXCEPT ![y] = [x \in Cols |-> GRAY_TILE]]

\* "clear out area for text" at the end of game_over
clear_text_area(field) ==
  [y \in Rows |-> [x \in Cols |->
     IF /\ y >= GRID_HEIGHT \div 2 - 2 + (SCREEN_HEIGHT % 2)
        /\ y < GRID_HEIGHT \div 2 + 2
        /\ x >= SCALE - 1
        /\ x < GRID_WIDTH - (SCALE - 1)
     THEN 0 ELSE field[y][x]]]

\* tetromino_handler resumes inside game_over after asyncio.sleep(2 / GRID_HEIGHT)
WipeStep ==
  /\ UNCHANGED button_vars
  /\ Alive
  /\ pc = "wipe"
  /\ IF wipe_y > 0
     THEN /\ tilegrid' = wipe_row(tilegrid, wipe_y - 1)
          /\ wipe_y' = wipe_y - 1
          /\ last' = Event("tick", "wipe", 0, 0)
          /\ UNCHANGED <<game_state, pc>>
     ELSE /\ game_state' = STATE_WAITING
          /\ tilegrid' = clear_text_area(tilegrid)
          /\ pc' = "loop"
          /\ last' = Event("tick", "waiting", 0, 0)
          /\ UNCHANGED wipe_y
  /\ UNCHANGED <<tetromino, tetromino_indicator, next_tetromino, score_window, level,
                 current_lines, last_drop_time, reloaded, crashed, save_file, pieces>>

\* ------------------------------------------------------ tetromino_handler
\* The body of one tick: the look-ahead probe, then either the lock (place,
\* line clearing, add_lines, game over or the next piece) or the move down.
\* Everything up to the next await runs without interruption.
TickBody ==
  LET p == Probe(tilegrid, tetromino, tetromino.tg, 0, 1)
      placed == place(tilegrid, tetromino)
      cl == clear_lines(placed, Max(tetromino.y, 0),
                        Min(tetromino.y + TETROMINO_SIZE, GRID_HEIGHT), 0)
      al == add_lines(cl.lines, score_window, level, current_lines)
      over == tetromino.y <= 0 /\ cl.lines = 0
      spawns == ~over /\ game_state = STATE_PLAYING
  IN
  IF \/ p = "fault"
     \/ p = "hit" /\ spawns /\ get_next_tetromino(cl.grid, next_tetromino, 0).fault
  THEN Raise("tick")
  ELSE IF p = "free"
  THEN \* move tetromino down
       /\ tetromino' = [tetromino EXCEPT !.y = tetromino.y + 1]
       /\ pc' = "loop"
       /\ last' = Event("tick", "drop", 0, 0)
       /\ UNCHANGED <<tilegrid, tetromino_indicator, next_tetromino, game_state,
                      score_window, level, current_lines, last_drop_time, wipe_y,
                      reloaded, crashed, save_file, pieces>>
  ELSE \* place if collided
       /\ score_window' = al.score_window
       /\ level' = al.level
       /\ current_lines' = al.current_lines
       /\ last' = Event("tick", "lock", cl.lines, 0)
       /\ UNCHANGED <<last_drop_time, reloaded, crashed>>
       /\ IF over
          THEN \* await game_over(), up to its first asyncio.sleep
               /\ game_state' = STATE_GAME_OVER
               /\ \E written \in BOOLEAN : save_file' = save(al.score_window, save_file, written)
               /\ tetromino' = [tetromino EXCEPT !.hidden = TRUE]
               /\ tetromino_indicator' = [tetromino_indicator EXCEPT !.hidden = TRUE]
               /\ next_tetromino' = [next_tetromino EXCEPT !.hidden = TRUE]
               /\ tilegrid' = wipe_row(cl.grid, GRID_HEIGHT - 1)
               /\ wipe_y' = GRID_HEIGHT - 1
               /\ pc' = "wipe"
               /\ UNCHANGED pieces
          ELSE IF spawns
          THEN \* generate new tetromino
               /\ pieces < MaxPieces
               /\ \E rnd \in get_random_tetromino_index :
                    LET n == get_next_tetromino(cl.grid, next_tetromino, rnd) IN
                    /\ tetromino' = n.tetromino
                    /\ tetromino_indicator' = n.tetromino_indicator
                    /\ next_tetromino' = n.next_tetromino
               /\ tilegrid' = cl.grid
               /\ pieces' = pieces + 1
               /\ pc' = "loop"
               /\ UNCHANGED <<game_state, wipe_y, save_file>>
          ELSE \* the phase is no longer Playing: the locked piece stays
               /\ tilegrid' = cl.grid
               /\ tetromino_indicator' = [tetromino_indicator EXCEPT !.hidden = TRUE]
               /\ pc' = "loop"
               /\ UNCHANGED <<tetromino, next_tetromino, game_state, wipe_y, save_file, pieces>>

\* the handler wakes at the top of its while True loop
TickLoop ==
  /\ UNCHANGED button_vars
  /\ Alive
  /\ pc = "loop"
  /\ game_state = STATE_PLAYING
  /\ IF last_drop_time
     THEN \* synchronize with last manual drop: clear the mark and sleep
          /\ last_drop_time' = FALSE
          /\ pc' = "sync"
          /\ last' = Event("tick", "sync", 0, 0)
          /\ UNCHANGED <<tilegrid, tetromino, tetromino_indicator, next_tetromino,
                         game_state, score_window, level, current_lines, wipe_y,
                         reloaded, crashed, save_file, pieces>>
     ELSE TickBody

\* game_state is not Playing: asyncio.sleep(1/30) and test again
TickIdle ==
  /\ UNCHANGED button_vars
  /\ Alive
  /\ pc = "loop"
  /\ game_state # STATE_PLAYING
  /\ UNCHANGED vars

\* the handler wakes inside the synchronisation loop: the mark is tested
\* again, game_state is not
TickSync ==
  /\ UNCHANGED button_vars
  /\ Alive
  /\ pc = "sync"
  /\ IF last_drop_time
     THEN /\ last_drop_time' = FALSE
          /\ last' = Event("tick", "sync", 0, 0)
          /\ UNCHANGED <<tilegrid, tetromino, tetromino_indicator, next_tetromino,
                         game_state, score_window, level, current_lines, pc, wipe_y,
                         reloaded, crashed, save_file, pieces>>
     ELSE TickBody

Tick == TickLoop \/ TickIdle \/ TickSync \/ WipeStep

\* -------------------------------------------------------------- do_action
\* variant in which the indicator is probed again but stays in its column
follow_in_column(field, ind, t) == update_tetromino_indicator_y(field, ind, t)

\* the indicator follows a successful rotation or side move of the piece
follow(field, ind, t) == update_tetromino_indicator_y(field, [ind EXCEPT !.x = t.x], t)

\* frame of the actions that touch only the pieces
PieceFrame ==
  UNCHANGED <<tilegrid, next_tetromino, game_state, score_window, level,
              current_lines, last_drop_time, pc, wipe_y, reloaded, crashed, save_file, pieces>>

Rotate ==
  LET r == rotate_right(tilegrid, tetromino, FALSE)
      i == follow(tilegrid, rotate_right(tilegrid, tetromino_indicator, TRUE).t, r.t)
  IN IF r.fault \/ (r.ret /\ i.fault) THEN Raise("input")
     ELSE /\ tetromino' = r.t
          /\ tetromino_indicator' = IF r.ret THEN i.t ELSE tetromino_indicator
          /\ last' = Event("input", "-", 0, 0)
          /\ PieceFrame

Side(dx) ==
  LET r == move(tilegrid, tetromino, dx, 0)
      i == follow(tilegrid, tetromino_indicator, r.t)
  IN IF r.fault \/ (r.ret /\ i.fault) THEN Raise("input")
     ELSE /\ tetromino' = r.t
          /\ tetromino_indicator' = IF r.ret THEN i.t ELSE tetromino_indicator
          /\ last' = Event("input", "-", 0, 0)
          /\ PieceFrame

\* variant of the soft drop that records no time of the drop
SoftDrop_unmarked ==
  LET r == down(tilegrid, tetromino) IN
  IF r.fault THEN Raise("input")
  ELSE /\ tetromino' = r.t
       /\ last' = Event("input", "-", 0, 0)
       /\ UNCHANGED <<tilegrid, tetromino_indicator, next_tetromino, game_state,
                      score_window, level, current_lines, last_drop_time, pc, wipe_y,
                      reloaded, crashed, save_file, pieces>>

\* ACTION_SOFT_DROP in Playing
SoftDrop ==
  LET r == down(tilegrid, tetromino) IN
  IF r.fault THEN Raise("input")
  ELSE /\ tetromino' = r.t
       /\ last_drop_time' = (r.ret \/ last_drop_time)
       /\ last' = Event("input", "-", 0, 0)
       /\ UNCHANGED <<tilegrid, tetromino_indicator, next_tetromino, game_state,
                      score_window, level, current_lines, pc, wipe_y, reloaded,
                      crashed, save_file, pieces>>

HardDrop ==
  LET h == hard_drop(tilegrid, tetromino, 0) IN
  IF h.fault THEN Raise("input")
  ELSE /\ tetromino' = h.t
       /\ score_window' = set_score(score_window, score_window.score + h.spaces)
       /\ last_drop_time' = (h.spaces > 0 \/ last_drop_time)
       /\ last' = Event("input", "-", 0, 0)
       /\ UNCHANGED <<tilegrid, tetromino_indicator, next_tetromino, game_state,
                      level, current_lines, pc, wipe_y, reloaded, crashed, save_file, pieces>>

\* frame of the actions that touch only the phase or the process
PhaseFrame ==
  UNCHANGED <<tilegrid, tetromino, tetromino_indicator, next_tetromino, score_window,
              level, current_lines, last_drop_time, pc, wipe_y, crashed, save_file, pieces>>

\* variant of do_action whose Playing block is also entered for the side
\* moves while the phase is Paused
do_action_sides_in_pause(action) ==
  /\ Alive
  /\ IF \/ game_state = STATE_PLAYING
        \/ game_state = STATE_PAUSED /\ action \in {ACTION_LEFT, ACTION_RIGHT}
     THEN CASE action = ACTION_ROTATE -> Rotate
            [] action = ACTION_LEFT -> Side(-1)
            [] action = ACTION_RIGHT -> Side(1)
            [] action = ACTION_SOFT_DROP -> SoftDrop
            [] action = ACTION_HARD_DROP -> HardDrop
            [] action = ACTION_PAUSE ->
                 /\ game_state' = STATE_PAUSED
                 /\ last' = Event("input", "-", 0, 0)
                 /\ UNCHANGED reloaded
                 /\ PhaseFrame
            [] OTHER ->
                 /\ last' = Event("input", "-", 0, 0)
                 /\ UNCHANGED <<game_state, reloaded>>
                 /\ PhaseFrame
     ELSE IF game_state = STATE_PAUSED /\ action = ACTION_PAUSE
     THEN /\ game_state' = STATE_PLAYING
          /\ last' = Event("input", "-", 0, 0)
          /\ UNCHANGED reloaded
          /\ PhaseFrame
     ELSE IF game_state = STATE_WAITING /\ action # ACTION_QUIT
     THEN reset_game
     ELSE IF action = ACTION_QUIT
     THEN /\ reloaded' = TRUE
          /\ last' = Event("input", "-", 0, 0)
          /\ UNCHANGED game_state
          /\ PhaseFrame
     ELSE /\ last' = Event("input", "-", 0, 0)
          /\ UNCHANGED <<game_state, reloaded>>
          /\ PhaseFrame

\* do_action(action), called by gamepad_handler and button_handler between
\* two of their awaits
do_action(action) ==
  /\ Alive
  /\ IF game_state = STATE_PLAYING
     THEN CASE action = ACTION_ROTATE -> Rotate
            [] action = ACTION_LEFT -> Side(-1)
            [] action = ACTION_RIGHT -> Side(1)
            [] action = ACTION_SOFT_DROP -> SoftDrop
            [] action = ACTION_HARD_DROP -> HardDrop
            [] action = ACTION_PAUSE ->
                 /\ game_state' = STATE_PAUSED
                 /\ last' = Event("input", "-", 0, 0)
                 /\ UNCHANGED reloaded
                 /\ PhaseFrame
            [] OTHER ->
                 \* no branch of the Playing block matches and the elif chain
                 \* below it is skipped
                 /\ last' = Event("input", "-", 0, 0)
                 /\ UNCHANGED <<game_state, reloaded>>
                 /\ PhaseFrame
     ELSE IF game_state = STATE_PAUSED /\ action = ACTION_PAUSE
     THEN /\ game_state' = STATE_PLAYING
          /\ last' = Event("input", "-", 0, 0)
          /\ UNCHANGED reloaded
          /\ PhaseFrame
     ELSE IF game_state = STATE_WAITING /\ action # ACTION_QUIT
     THEN reset_game
     ELSE IF action = ACTION_QUIT
     THEN /\ reloaded' = TRUE
          /\ last' = Event("input", "-", 0, 0)
          /\ UNCHANGED game_state
          /\ PhaseFrame
     ELSE /\ last' = Event("input", "-", 0, 0)
          /\ UNCHANGED <<game_state, reloaded>>
          /\ PhaseFrame

Input == \E action \in Actions : do_action(action) /\ UNCHANGED button_vars

Next == Tick \/ Input

Spec == Init /\ [][Next]_vars

\* The whole game with the tick task scheduled fairly: asyncio runs
\* tetromino_handler again after each of its sleeps, all of which are finite.
\* The input tasks act or not as the player chooses.
FairSpec == Spec /\ WF_vars(Tick)

\* ------------------------------------------------------- hardware buttons
\* key_number of BUTTON1, BUTTON2, BUTTON3 in buttons
KeyNumbers == 0..2

\* BUTTON_MAP[i] of the source is BUTTON_MAP[i + 1] here
BUTTON_MAP ==
  <<NoAction, ACTION_LEFT, ACTION_ROTATE, ACTION_PAUSE, ACTION_RIGHT,
    ACTION_HARD_DROP, ACTION_SOFT_DROP, ACTION_QUIT>>

\* a keypad.Event
KeyEvent(pressed, key_number) == [pressed |-> pressed, key_number |-> key_number]

\* buttons scans a button that went down and queues its pressed event. A
\* button that is down cannot go down again, and the queue loses nothing:
\* at most MaxEvents events wait in it.
KeysPressed(key_number) ==
  /\ Alive
  /\ key_number \notin keys_down
  /\ Len(events) < MaxEvents
  /\ keys_down' = keys_down \cup {key_number}
  /\ events' = Append(events, KeyEvent(TRUE, key_number))
  /\ UNCHANGED <<game_vars, button_pressed, button_log>>

\* buttons scans a button that went up and queues its released event
KeysReleased(key_number) ==
  /\ Alive
  /\ key_number \in keys_down
  /\ Len(events) < MaxEvents
  /\ keys_down' = keys_down \ {key_number}
  /\ events' = Append(events, KeyEvent(FALSE, key_number))
  /\ UNCHANGED <<game_vars, button_pressed, button_log>>

\* variant of button_handler that keeps the sum after a dispatch
button_handler_keeping_sum ==
  /\ Alive
  /\ events # <<>>
  /\ events' = Tail(events)
  /\ UNCHANGED keys_down
  /\ LET event == Head(events) IN
     IF event.pressed
     THEN /\ button_pressed' = button_pressed + 2 ^ event.key_number
          /\ button_log' = ButtonLog("press", button_log.keys \cup {event.key_number}, NoAction)
          /\ UNCHANGED game_vars
     ELSE IF button_pressed # 0
     THEN IF button_pressed + 1 \notin DOMAIN BUTTON_MAP
          THEN /\ Raise("button")
               /\ UNCHANGED button_pressed
               /\ button_log' = ButtonLog("raise", button_log.keys, NoAction)
          ELSE LET action == BUTTON_MAP[button_pressed + 1] IN
               /\ IF action = NoAction THEN UNCHANGED game_vars ELSE do_action(action)
               /\ UNCHANGED button_pressed
               /\ button_log' = ButtonLog("dispatch", {}, action)
     ELSE /\ button_log' = ButtonLog("skip", button_log.keys, NoAction)
          /\ UNCHANGED <<game_vars, button_pressed>>

\* one turn of the loop of button_handler that finds an event in the queue
\* (a turn that finds none changes nothing). BUTTON_MAP is a tuple of 8: an
\* index above 7 raises IndexError. do_action ignores None.
button_handler ==
  /\ Alive
  /\ events # <<>>
  /\ events' = Tail(events)
  /\ UNCHANGED keys_down
  /\ LET event == Head(events) IN
     IF event.pressed
     THEN /\ button_pressed' = button_pressed + 2 ^ event.key_number
          /\ button_log' = ButtonLog("press", button_log.keys \cup {event.key_number}, NoAction)
          /\ UNCHANGED game_vars
     ELSE IF button_pressed # 0
     THEN IF button_pressed + 1 \notin DOMAIN BUTTON_MAP
          THEN /\ Raise("button")
               /\ UNCHANGED button_pressed
               /\ button_log' = ButtonLog("raise", button_log.keys, NoAction)
          ELSE LET action == BUTTON_MAP[button_pressed + 1] IN
               /\ IF action = NoAction THEN UNCHANGED game_vars ELSE do_action(action)
               /\ button_pressed' = IF crashed' THEN button_pressed ELSE 0
               /\ button_log' = ButtonLog("dispatch", {}, action)
     ELSE /\ button_log' = ButtonLog("skip", button_log.keys, NoAction)
          /\ UNCHANGED <<game_vars, button_pressed>>

\* The game played with the hardware buttons alone: the tick task, the
\* scanner of the buttons and button_handler. No gamepad or keyboard is
\* connected, so gamepad_handler finds no input to pass on.
ButtonNext ==
  \/ Tick
  \/ \E key_number \in KeyNumbers : KeysPressed(key_number)
  \/ \E key_number \in KeyNumbers : KeysReleased(key_number)
  \/ button_handler

ButtonSpec == Init /\ [][ButtonNext]_vars

\* ------------------------------------------------------------- unit steps
\* A second specification for the claims about one call of a function: its
\* initial states are Playing states over a family of grids and every shape,
\* rotation and position of the active piece, and each behaviour applies one
\* function once to such a state.

\* rows of the family: empty, filled except column HoleCol, only column
\* BlockCol filled; a filled cell of row y holds tile y + 1, so that every
\* row of a grid is told from the others
HoleCol == GRID_WIDTH \div 2
BlockCol == (GRID_WIDTH \div 2) - 1
RowKinds == {"empty", "hole", "block"}

UnitRow(kind, y) ==
  [x \in Cols |-> IF \/ kind = "hole" /\ x # HoleCol
                     \/ kind = "block" /\ x = BlockCol
                  THEN y + 1 ELSE 0]

UnitGrids == {[y \in Rows |-> UnitRow(kinds[y], y)] : kinds \in [Rows -> RowKinds]}

\* the set cells of a piece, as grid positions
CellsOf(t) == {<<t.x + j, t.y + i>> : <<i, j>> \in {c \in TSize \X TSize : t.tg[c[1]][c[2]] # 0}}

\* where get_next_tetromino puts a new piece
AtSpawn(t) ==
  /\ t.rotation = 0
  /\ t.x = (GRID_WIDTH - TETROMINO_SIZE) \div 2
  /\ t.y = NewTetromino(t.index, TRUE).y

\* positions a piece of the program can have: a new piece is put at its
\* spawn position whatever the grid holds; every later position was reached
\* by a move or a rotation, which check_collide found free
UnitPieces ==
  {[index |-> index, rotation |-> rotation, x |-> x, y |-> y,
    tg |-> GridSetter(index, rotation), hidden |-> FALSE] :
     index \in Indices, rotation \in 0..3,
     x \in (0 - TETROMINO_SIZE)..GRID_WIDTH, y \in (0 - 1)..(GRID_HEIGHT - 1)}

\* a game in progress
UnitPlaying ==
  /\ tilegrid \in UnitGrids
  /\ tetromino \in UnitPieces
  /\ \/ AtSpawn(tetromino)
     \/ /\ tetromino.y >= NewTetromino(tetromino.index, TRUE).y
        /\ \A c \in CellsOf(tetromino) : c[2] >= 0
        /\ Probe(tilegrid, tetromino, tetromino.tg, 0, 0) = "free"
  /\ tetromino_indicator = update_tetromino_indicator_y(tilegrid, tetromino, tetromino).t
  /\ next_tetromino = NewNext(0)
  /\ game_state = STATE_PLAYING
  /\ score_window = [high_score |-> HIGH_SCORE_START, score |-> 0]
  /\ level = 1
  /\ current_lines = 0

\* the grid game_over leaves: every row gray, then the text area cleared
WipedGrid == clear_text_area([y \in Rows |-> [x \in Cols |-> GRAY_TILE]])

\* Waiting: before the first game, or after a game that ended with the
\* piece locked where it was spawned
UnitWaiting ==
  /\ game_state = STATE_WAITING
  /\ \E index \in Indices :
       \/ /\ tilegrid = EmptyGrid
          /\ tetromino = None
          /\ tetromino_indicator = None
          /\ next_tetromino = NewNext(index)
          /\ score_window = [high_score |-> HIGH_SCORE_START, score |-> 0]
          /\ level = 1
          /\ current_lines = 0
       \/ /\ tilegrid = WipedGrid
          /\ tetromino = [get_next_tetromino(EmptyGrid, NewNext(0), 0).tetromino
                            EXCEPT !.hidden = TRUE]
          /\ tetromino_indicator = [get_next_tetromino(EmptyGrid, NewNext(0), 0).tetromino_indicator
                                      EXCEPT !.hidden = TRUE]
          /\ next_tetromino = [NewNext(index) EXCEPT !.hidden = TRUE]
          /\ score_window \in {[high_score |-> HIGH_SCORE_START, score |-> GRID_HEIGHT],
                                [high_score |-> HIGH_SCORE_START + POINTS[1],
                                 score |-> HIGH_SCORE_START + POINTS[1]]}
          /\ level \in {1, 2}
          /\ current_lines \in {0, 3}

UnitInit ==
  /\ ButtonsIdle
  /\ UnitPlaying \/ UnitWaiting
  /\ last_drop_time = FALSE
  /\ pc = "loop"
  /\ wipe_y = 0
  /\ reloaded = FALSE
  /\ crashed = FALSE
  /\ save_file = NoFile
  /\ pieces = 0
  /\ last = Event("init", "-", 0, 0)

Bool(b) == IF b THEN "true" ELSE "false"

\* a unit step is taken from an initial state only
Fresh == last.op = "init"

\* a unit step on the active piece is taken from a state of a game
FreshGame == Fresh /\ game_state = STATE_PLAYING

\* frame of the unit steps that touch the active piece only
UnitFrame ==
  UNCHANGED <<tilegrid, tetromino_indicator, next_tetromino, game_state, score_window,
              level, current_lines, last_drop_time, pc, wipe_y, reloaded, crashed, save_file, pieces>>

\* tetromino.check_collide(x=x, y=y)
UnitCollide(x, y) ==
  /\ UNCHANGED button_vars
  /\ FreshGame
  /\ Probe(tilegrid, tetromino, tetromino.tg, x, y) # "fault"
  /\ last' = Event("check_collide", Bool(check_collide(tilegrid, tetromino, tetromino.tg, x, y)), x, y)
  /\ UNCHANGED tetromino
  /\ UnitFrame

\* tetromino.move(x, y)
UnitMove(x, y) ==
  /\ UNCHANGED button_vars
  /\ LET r == move(tilegrid, tetromino, x, y) IN
     /\ FreshGame
     /\ ~r.fault
     /\ tetromino' = r.t
     /\ last' = Event("move", Bool(r.ret), x, y)
     /\ UnitFrame

\* tetromino.rotate_right()
UnitRotateRight ==
  /\ UNCHANGED button_vars
  /\ LET r == rotate_right(tilegrid, tetromino, FALSE) IN
     /\ FreshGame
     /\ ~r.fault
     /\ tetromino' = r.t
     /\ last' = Event("rotate_right", Bool(r.ret), r.t.x - tetromino.x, 0)
     /\ UnitFrame

\* tetromino.rotate_left()
UnitRotateLeft ==
  /\ UNCHANGED button_vars
  /\ LET r == rotate_left(tilegrid, tetromino, FALSE) IN
     /\ FreshGame
     /\ ~r.fault
     /\ tetromino' = r.t
     /\ last' = Event("rotate_left", Bool(r.ret), r.t.x - tetromino.x, 0)
     /\ UnitFrame

\* the ACTION_HARD_DROP block of do_action
UnitHardDrop ==
  /\ UNCHANGED button_vars
  /\ LET h == hard_drop(tilegrid, tetromino, 0) IN
     /\ FreshGame
     /\ ~h.fault
     /\ tetromino' = h.t
     /\ score_window' = set_score(score_window, score_window.score + h.spaces)
     /\ last_drop_time' = (h.spaces > 0 \/ last_drop_time)
     /\ last' = Event("hard_drop", "-", h.spaces, 0)
     /\ UNCHANGED <<tilegrid, tetromino_indicator, next_tetromino, game_state, level,
                    current_lines, pc, wipe_y, reloaded, crashed, save_file, pieces>>

\* tetromino.place(), called where the tick calls it: the piece cannot move down
UnitPlace ==
  /\ UNCHANGED button_vars
  /\ FreshGame
  /\ Probe(tilegrid, tetromino, tetromino.tg, 0, 1) = "hit"
  /\ tilegrid' = place(tilegrid, tetromino)
  /\ last' = Event("place", "-", 0, 0)
  /\ UNCHANGED <<tetromino, tetromino_indicator, next_tetromino, game_state, score_window,
                 level, current_lines, last_drop_time, pc, wipe_y, reloaded, crashed, save_file, pieces>>

\* do_action(action) in Waiting
UnitStart(action) ==
  /\ UNCHANGED button_vars
  /\ Fresh
  /\ game_state = STATE_WAITING
  /\ do_action(action)

\* one tick of tetromino_handler
UnitTick ==
  /\ UNCHANGED button_vars
  /\ FreshGame /\ TickBody

UnitNext ==
  \/ \E x \in {-1, 0, 1}, y \in {0, 1} : UnitCollide(x, y)
  \/ \E d \in {<<-1, 0>>, <<1, 0>>, <<0, 1>>} : UnitMove(d[1], d[2])
  \/ UnitRotateRight
  \/ UnitRotateLeft
  \/ UnitHardDrop
  \/ UnitPlace
  \/ \E action \in Actions : UnitStart(action)
  \/ UnitTick

UnitSpec == UnitInit /\ [][UnitNext]_vars

\* ------------------------------------------------------------------ claims
\* what the previous state's tick locks: the grid with the piece placed and
\* the rows the piece spans
Placed == place(tilegrid, tetromino)
Spanned == Max(tetromino.y, 0)..(Min(tetromino.y + TETROMINO_SIZE, GRID_HEIGHT) - 1)
FullSpanned == {y \in Spanned : \A x \in Cols : Placed[y][x] # 0}
KeptRows == Rows \ FullSpanned

\* the grid with the rows FullSpanned removed, the rows above them shifted
\* down and as many empty rows put on top
Removed ==
  LET n == Cardinality(FullSpanned) IN
  [i \in Rows |->
     IF i < n THEN EmptyRow
     ELSE Placed[CHOOSE y \in KeptRows : Cardinality({z \in KeptRows : z < y}) = i - n]]

\* a tick that locked the piece and went on with the game
Locked == last'.op = "tick" /\ last'.ret = "lock" /\ game_state' # STATE_GAME_OVER

\* C1: after a lock the grid is the grid with the piece placed, its full
\* spanned rows removed, the rows above them shifted down by the number of
\* removed rows below and that many empty rows on top, for every grid
\* content, a full row 1 included.
C1_LineClear == [][Locked => tilegrid' = Removed]_vars

\* C2: while the phase is Paused no step of the tick task moves the piece
\* down, locks it, clears lines, changes the score or ends the game, the
\* tick that waited in the re-synchronisation sleep included.
C2_PausedSuspendsTick ==
  [][game_state = STATE_PAUSED /\ last'.op = "tick"
       => UNCHANGED <<tetromino, tilegrid, score_window, level, current_lines, game_state>>]_vars

\* C3: in every phase do_action(ACTION_QUIT) calls supervisor.reload and
\* makes no phase transition.
C3_QuitEveryPhase ==
  [][do_action(ACTION_QUIT) => reloaded' /\ game_state' = game_state]_vars

Phases == {STATE_WAITING, STATE_PLAYING, STATE_PAUSED, STATE_GAME_OVER}

PhaseEdges ==
  {<<STATE_WAITING, STATE_PLAYING>>, <<STATE_PLAYING, STATE_PAUSED>>,
   <<STATE_PAUSED, STATE_PLAYING>>, <<STATE_PLAYING, STATE_GAME_OVER>>,
   <<STATE_GAME_OVER, STATE_WAITING>>}

\* C4: the phase is one of the four, starts as Waiting and changes only
\* along Waiting->Playing, Playing->Paused, Paused->Playing,
\* Playing->GameOver and GameOver->Waiting.
C4_PhaseGraph ==
  /\ game_state = STATE_WAITING
  /\ [][/\ game_state' \in Phases
        /\ game_state' = game_state \/ <<game_state, game_state'>> \in PhaseEdges]_vars

\* the grid with every cell of the active piece that lies inside it set to
\* the piece's tile
WithPiece ==
  [gy \in Rows |-> [gx \in Cols |->
     IF <<gx, gy>> \in CellsOf(tetromino) THEN TileOf(tetromino.index) ELSE tilegrid[gy][gx]]]

\* the topmost row the active piece occupies
TopRow == tetromino.y + FirstRow(tetromino.tg, 0)

\* a tick that locked the piece without clearing a line
LockedNoLines == last'.op = "tick" /\ last'.ret = "lock" /\ last'.a = 0

\* C5: a piece that locks with no line cleared and its topmost row at or
\* above row 0 makes the phase GameOver in that tick and no piece is
\* spawned; while the grid is wiped, every row not yet wiped keeps what it
\* held right after the lock, whatever inputs arrive between the steps.
C5_GameOverAndWipe ==
  [][/\ LockedNoLines /\ TopRow <= 0
          => /\ game_state' = STATE_GAME_OVER
             /\ pieces' = pieces
             /\ tetromino' = [tetromino EXCEPT !.hidden = TRUE]
             /\ pc' = "wipe"
             /\ \A y \in Rows : y < wipe_y' => tilegrid'[y] = WithPiece[y]
     /\ pc = "wipe" /\ pc' = "wipe"
          => /\ wipe_y' <= wipe_y
             /\ \A y \in Rows : y < wipe_y' => tilegrid'[y] = tilegrid[y]]_vars

\* an input has arrived during the wipe of a game that ended with the
\* locked piece in row 0, and row 0, which holds its tiles, is still to be wiped
C5_Witness ==
  /\ pc = "wipe"
  /\ game_state = STATE_GAME_OVER
  /\ last.op = "input"
  /\ TopRow <= 0
  /\ wipe_y > 0
  /\ \E x \in Cols : tilegrid[0][x] = TileOf(tetromino.index)

\* the cells of the active piece, shifted by (dx, dy)
ShiftedCells(dx, dy) == {<<c[1] + dx, c[2] + dy>> : c \in CellsOf(tetromino)}

\* some shifted cell is left or right of the grid, below it, or on a tile
Blocked(dx, dy) ==
  \E c \in ShiftedCells(dx, dy) :
    \/ c[1] < 0
    \/ c[1] >= GRID_WIDTH
    \/ c[2] >= GRID_HEIGHT
    \/ c[1] \in Cols /\ c[2] \in Rows /\ tilegrid[c[2]][c[1]] # 0

\* C6: check_collide(dx, dy) is true exactly when some set cell of the
\* pattern, at (x + local_x + dx, y + local_y + dy), has x < 0,
\* x >= GRID_WIDTH, y >= GRID_HEIGHT or lies on a set grid cell.
C6_CheckCollide ==
  last.op = "check_collide" => (last.ret = "true" <=> Blocked(last.a, last.b))

\* check_collide returned true for a cell on a tile, all cells inside the grid
C6_Witness ==
  /\ last.op = "check_collide"
  /\ last.ret = "true"
  /\ \A c \in ShiftedCells(last.a, last.b) : c[1] \in Cols /\ c[2] \in Rows

\* the offsets of the wall kick in the order they are tried
Kicks == <<0, -1, 1>>

\* the outcome a rotation to pattern g with counter change d must have
KickOutcome(g, d) ==
  LET fits == {k \in DOMAIN Kicks : ~check_collide(tilegrid, tetromino, g, Kicks[k], 0)} IN
  IF fits # {}
  THEN LET dx == Kicks[CHOOSE k \in fits : \A m \in fits : k <= m] IN
       /\ last'.ret = "true"
       /\ tetromino' = [tetromino EXCEPT !.tg = g, !.x = tetromino.x + dx,
                                         !.rotation = (tetromino.rotation + d) % 4]
  ELSE /\ last'.ret = "false"
       /\ tetromino' = tetromino

\* C7: a rotation applies the rotated pattern at the first of the x offsets
\* 0, -1, +1 at which it does not collide, commits pattern and shift, moves
\* the rotation counter by one modulo 4 and returns success; when it
\* collides at all three it returns failure and pattern, x, y and counter
\* are unchanged. A rotation never changes y.
C7_WallKick ==
  [][/\ last'.op = "rotate_right" => KickOutcome(RotatedRight(tetromino.tg), 1)
     /\ last'.op = "rotate_left" => KickOutcome(RotatedLeft(tetromino.tg), -1)
     /\ last'.op \in {"rotate_right", "rotate_left"} => tetromino'.y = tetromino.y]_vars

\* a right rotation that succeeded with the kick to x + 1
C7_Witness == last.op = "rotate_right" /\ last.ret = "true" /\ last.a = 1

\* C8: a successful right rotation gives new[y][x] = old[3-x][y] for all
\* x, y in 0..3, patterns indexed [row][column], and a left rotation is its
\* exact inverse.
C8_RightRotation ==
  [][last'.op = "rotate_right" /\ last'.ret = "true"
       => /\ \A y \in TSize, x \in TSize : tetromino'.tg[y][x] = tetromino.tg[3 - x][y]
          /\ RotatedLeft(tetromino'.tg) = tetromino.tg]_vars

\* C9: move(dx, dy) adds (dx, dy) to the position and returns success
\* exactly when check_collide(dx, dy) is false; otherwise it returns failure
\* and position, pattern and grid are unchanged. left, right and down are
\* move(-1, 0), move(1, 0) and move(0, 1).
C9_Move ==
  [][last'.op = "move"
       => LET dx == last'.a
              dy == last'.b
              hit == check_collide(tilegrid, tetromino, tetromino.tg, dx, dy)
          IN /\ last'.ret = Bool(~hit)
             /\ tetromino' = IF hit THEN tetromino
                             ELSE [tetromino EXCEPT !.x = tetromino.x + dx, !.y = tetromino.y + dy]
             /\ tilegrid' = tilegrid
             /\ left(tilegrid, tetromino) = move(tilegrid, tetromino, -1, 0)
             /\ right(tilegrid, tetromino) = move(tilegrid, tetromino, 1, 0)
             /\ down(tilegrid, tetromino) = move(tilegrid, tetromino, 0, 1)]_vars

\* a move to the side that a tile of the grid refused
C9_Witness ==
  /\ last.op = "move"
  /\ last.ret = "false"
  /\ last.b = 0
  /\ \A c \in ShiftedCells(last.a, 0) : c[1] \in Cols /\ c[2] \in Rows

\* the rows a lock looks at, cleared as the tick clears them
LockedGrid ==
  clear_lines(WithPiece, Max(tetromino.y, 0), Min(tetromino.y + TETROMINO_SIZE, GRID_HEIGHT), 0)

\* C10: a tick in Playing either locks the piece, when it would collide one
\* row lower (its cells are placed, lines are cleared and scored), or moves
\* it down by exactly 1 with grid, x, pattern, score and level unchanged.
C10_TickLocksOrDrops ==
  [][game_state = STATE_PLAYING /\ last'.op = "tick" /\ last'.ret # "sync"
       => IF Blocked(0, 1)
          THEN /\ last'.ret = "lock"
               /\ last'.a = LockedGrid.lines
               /\ tilegrid' = IF game_state' = STATE_GAME_OVER
                              THEN [LockedGrid.grid EXCEPT ![GRID_HEIGHT - 1] = tilegrid'[GRID_HEIGHT - 1]]
                              ELSE LockedGrid.grid
               /\ score_window' = add_lines(LockedGrid.lines, score_window, level, current_lines).score_window
          ELSE /\ last'.ret = "drop"
               /\ tetromino' = [tetromino EXCEPT !.y = tetromino.y + 1]
               /\ UNCHANGED <<tilegrid, score_window, level>>]_vars

\* a tick that locked the piece, cleared a line and went on with a new piece
C10_Witness ==
  /\ last.op = "tick"
  /\ last.ret = "lock"
  /\ last.a > 0
  /\ score_window.score > 0
  /\ game_state = STATE_PLAYING
  /\ pieces = 1

\* C11: a lock that finds no full row changes the grid only in the cells of
\* the locked piece, each of which then holds the piece's tile; place
\* changes grid cells only and leaves the piece's position and pattern as
\* they were. (A lock that ends the game goes on, in the same run of the
\* handler, to gray the bottom row: that row is game_over's.)
C11_PlaceFrame ==
  [][/\ last'.op = "place" => tilegrid' = WithPiece /\ tetromino' = tetromino
     /\ LockedNoLines
          => \A y \in Rows :
               \/ game_state' = STATE_GAME_OVER /\ y = GRID_HEIGHT - 1
               \/ tilegrid'[y] = WithPiece[y]]_vars

\* place has put the piece into a grid that held other tiles
C11_Witness ==
  /\ last.op = "place"
  /\ \A c \in CellsOf(tetromino) :
       c[1] \in Cols /\ c[2] \in Rows => tilegrid[c[2]][c[1]] = TileOf(tetromino.index)
  /\ \E y \in Rows, x \in Cols : tilegrid[y][x] # 0 /\ <<x, y>> \notin CellsOf(tetromino)

\* ------------------------------------------------------------ score steps
\* A third specification for the claims about scores, levels and the save
\* file: its initial states are states of a game at every level up to
\* MaxLevel and states of the ScoreWindow constructor before it reads the
\* save file, and each behaviour applies one function once.

\* the score of a game that reached level lvl by single lines only
RECURSIVE SinglesScore(_)
SinglesScore(lvl) ==
  IF lvl = 1 THEN 0
  ELSE SinglesScore(lvl - 1) + POINTS[1] * (lvl - 1) * (get_lines_per_level(lvl - 1) + 1)

\* points of hard drops on top of it
DropPoints == {0, 7}

\* a saved high score no game of the model reaches
SavedHigh == 2000000

\* the files a running game can have: the constructor removed a corrupt one
GameFiles == {NoFile, Unreadable, Saved(SavedHigh)}

\* the files the constructor can find
FoundFiles == {NoFile, Unreadable, Corrupt, Saved(HIGH_SCORE_START - 1), Saved(SavedHigh)}

ScoreGame ==
  /\ game_state = STATE_PLAYING
  /\ level \in 1..MaxLevel
  /\ current_lines \in 0..get_lines_per_level(level)
  /\ save_file \in GameFiles
  /\ \E d \in DropPoints :
       score_window =
         set_score(read_save([high_score |-> HIGH_SCORE_START, score |-> 0], save_file, TRUE).score_window,
                   SinglesScore(level) + POINTS[1] * level * current_lines + d)

\* inside ScoreWindow.__init__, before self._read_save()
ScoreConstructing ==
  /\ game_state = STATE_WAITING
  /\ level = 1
  /\ current_lines = 0
  /\ save_file \in FoundFiles
  /\ score_window = [high_score |-> HIGH_SCORE_START, score |-> 0]

ScoreInit ==
  /\ ButtonsIdle
  /\ ScoreGame \/ ScoreConstructing
  /\ tilegrid = EmptyGrid
  /\ tetromino = None
  /\ tetromino_indicator = None
  /\ next_tetromino = NewNext(0)
  /\ last_drop_time = FALSE
  /\ pc = "loop"
  /\ wipe_y = 0
  /\ reloaded = FALSE
  /\ crashed = FALSE
  /\ pieces = 0
  /\ last = Event("init", "-", 0, 0)

\* frame of the score steps
ScoreFrame ==
  UNCHANGED <<tilegrid, tetromino, tetromino_indicator, next_tetromino, game_state,
              last_drop_time, pc, wipe_y, reloaded, pieces>>

\* add_lines(lines), as the lock of a tick calls it
ScoreAddLines(lines) ==
  /\ UNCHANGED button_vars
  /\ LET al == add_lines(lines, score_window, level, current_lines) IN
     /\ Fresh
     /\ game_state = STATE_PLAYING
     /\ score_window' = al.score_window
     /\ level' = al.level
     /\ current_lines' = al.current_lines
     /\ last' = Event("add_lines", "-", lines, 0)
     /\ UNCHANGED <<crashed, save_file>>
     /\ ScoreFrame

\* get_drop_speed(), as the tick calls it before it sleeps
ScoreDropSpeed ==
  /\ UNCHANGED button_vars
  /\ Fresh
  /\ game_state = STATE_PLAYING
  /\ last' = Event("get_drop_speed", "-", get_drop_speed(level), 0)
  /\ UNCHANGED <<score_window, level, current_lines, crashed, save_file>>
  /\ ScoreFrame

\* score_window.score += spaces of a hard drop
ScoreHardDrop(spaces) ==
  /\ UNCHANGED button_vars
  /\ Fresh
  /\ game_state = STATE_PLAYING
  /\ score_window' = set_score(score_window, score_window.score + spaces)
  /\ last' = Event("hard_drop", "-", spaces, 0)
  /\ UNCHANGED <<level, current_lines, crashed, save_file>>
  /\ ScoreFrame

\* score_window.save(), as game_over calls it
ScoreSave ==
  /\ UNCHANGED button_vars
  /\ Fresh
  /\ game_state = STATE_PLAYING
  /\ \E written \in BOOLEAN :
       /\ save_file' = save(score_window, save_file, written)
       /\ last' = Event("save", Bool(written), 0, 0)
  /\ UNCHANGED <<score_window, level, current_lines, crashed>>
  /\ ScoreFrame

\* score_window.reset(), as reset_game calls it
ScoreReset ==
  /\ UNCHANGED button_vars
  /\ Fresh
  /\ game_state = STATE_PLAYING
  /\ score_window' = set_score(score_window, 0)
  /\ last' = Event("reset", "-", 0, 0)
  /\ UNCHANGED <<level, current_lines, crashed, save_file>>
  /\ ScoreFrame

\* self._read_save() of the constructor
ScoreReadSave ==
  /\ UNCHANGED button_vars
  /\ Fresh
  /\ game_state = STATE_WAITING
  /\ \E removed \in BOOLEAN :
       LET r == read_save(score_window, save_file, removed) IN
       /\ score_window' = r.score_window
       /\ save_file' = r.save_file
       /\ crashed' = r.fault
       /\ last' = Event("read_save", IF r.fault THEN "raise" ELSE "-", 0, 0)
  /\ UNCHANGED <<level, current_lines>>
  /\ ScoreFrame

ScoreNext ==
  \/ \E lines \in 0..TETROMINO_SIZE : ScoreAddLines(lines)
  \/ ScoreDropSpeed
  \/ \E spaces \in {1, GRID_HEIGHT} : ScoreHardDrop(spaces)
  \/ ScoreSave
  \/ ScoreReset
  \/ ScoreReadSave

ScoreSpec == ScoreInit /\ [][ScoreNext]_vars

\* the points of 1, 2, 3 and 4 lines at level 1
PointsTable == <<40, 100, 300, 1200>>

\* C12: a lock that clears k lines, 1 <= k <= 4, adds exactly
\* PointsTable[k] times the level in force before the lock to the score,
\* also when the same lock raises the level; a lock that clears no line
\* adds nothing.
C12_LineScore ==
  [][last'.op = "add_lines"
       => score_window'.score =
            score_window.score + (IF last'.a = 0 THEN 0 ELSE PointsTable[last'.a] * level)]_vars

\* four lines were scored by a lock that raised the level
C12_Witness ==
  /\ last.op = "add_lines"
  /\ last.a = 4
  /\ level > 1
  /\ current_lines = 0
  /\ score_window.score >= PointsTable[4]

\* how far the active piece can fall: the largest d with every shift by
\* 1..d rows free
FallDistance ==
  CHOOSE d \in 0..GRID_HEIGHT :
    /\ \A e \in 1..d : ~Blocked(0, e)
    /\ Blocked(0, d + 1)

C14_LevelUp ==
  [][/\ last'.op = "add_lines" /\ last'.a > 0
          => LET counter == current_lines + last'.a IN
             IF counter > level * 10
             THEN level' = level + 1 /\ current_lines' = 0
             ELSE level' = level /\ current_lines' = counter
     /\ last'.op = "add_lines" /\ last'.a = 0 => UNCHANGED <<level, current_lines>>
     /\ level' >= level]_vars

\* lines were added, the counter stands at exactly level * 10 and the level
\* has not risen
C14_Witness ==
  /\ last.op = "add_lines"
  /\ last.a > 0
  /\ current_lines = level * 10
  /\ level > 1

\* C15: in Waiting every action other than Quit starts a game: the grid is
\* all zero, the score 0, the level 1, the counter of lines 0, a new active
\* piece stands at the spawn position, the phase is Playing and the high
\* score is what it was.
C15_StartGame ==
  [][game_state = STATE_WAITING /\ (\E action \in Actions \ {ACTION_QUIT} : do_action(action))
       => /\ tilegrid' = EmptyGrid
          /\ score_window'.score = 0
          /\ score_window'.high_score = score_window.high_score
          /\ level' = 1
          /\ current_lines' = 0
          /\ game_state' = STATE_PLAYING
          /\ tetromino'.index = next_tetromino.index
          /\ tetromino'.tg = SetGrid(TileOf(tetromino'.index), PatternOf(tetromino'.index))
          /\ AtSpawn(tetromino')
          /\ ~tetromino'.hidden
          /\ pieces' = pieces + 1]_vars

\* a game was started after one that ended with a new high score, a level
\* above 1 and a wiped grid
C15_Witness ==
  /\ last.op = "input"
  /\ game_state = STATE_PLAYING
  /\ pieces = 1
  /\ tilegrid = EmptyGrid
  /\ score_window.score = 0
  /\ score_window.high_score > HIGH_SCORE_START
  /\ level = 1

\* C16: the high score never decreases, whatever the step (lines scored, a
\* hard drop, the save of a game over, a reset, the load of the constructor),
\* and in every state it is at least the current score.
C16_HighScore ==
  /\ [](score_window.high_score >= score_window.score)
  /\ [][score_window'.high_score >= score_window.high_score]_vars

\* a game whose score had passed the high score was reset: the score is 0
\* and the high score stays above the one the game started with
C16_Witness ==
  /\ last.op = "reset"
  /\ score_window.score = 0
  /\ score_window.high_score > HIGH_SCORE_START
  /\ save_file = NoFile

\* C17: the load of the constructor leaves a high score of 0 and no file
\* when the first line of the save file is not an integer, and a high score
\* of 0 when the file is absent or cannot be opened; in none of the three
\* cases does an exception leave the constructor.
C17_LoadSave ==
  [][last'.op = "read_save" /\ save_file.kind \in {"corrupt", "missing", "unreadable"}
       => /\ score_window'.high_score = 0
          /\ ~crashed'
          /\ save_file.kind = "corrupt" => save_file' = NoFile]_vars

\* the drop period of a level in sixtieths of a second, as a table
PeriodTable ==
  <<48, 43, 38, 33, 28, 23, 18, 13, 8, 6, 5, 5, 5, 4, 4, 4, 3, 3, 3>>

Period(lvl) == IF lvl >= 20 THEN 2 ELSE PeriodTable[lvl]

\* C18: the drop period in sixtieths of a second is 48 - (level - 1) * 5 for
\* levels 1..9, 6 for level 10, 5 for 11..13, 4 for 14..16, 3 for 17..19 and
\* 2 from level 20 on; it is strictly positive and not larger than the
\* period of the level below.
C18_DropPeriod ==
  last.op = "get_drop_speed"
    => /\ level >= 1
       /\ last.a = Period(level)
       /\ level <= 9 => last.a = 48 - (level - 1) * 5
       /\ last.a > 0
       /\ level > 1 => last.a <= Period(level - 1)

\* the period was taken at level 10, between the linear part and the steps
C18_Witness ==
  /\ last.op = "get_drop_speed"
  /\ level = 10
  /\ last.a = 6

\* the rows of its pattern in which a piece has a tile
TileRows(t) == {i \in TSize : \E j \in TSize : t.tg[i][j] # 0}

\* a new piece whose pattern is taller than the grid: it stands where
\* get_next_tetromino put it, which asks no check_collide. The grid of the
\* program (SCREEN_HEIGHT - 4 rows) is taller than every pattern
\* (TETROMINO_SIZE rows), so this is a case of short grids only.
TallerThanGrid(t) ==
  /\ t.rotation = 0
  /\ t.y <= 0
  /\ Cardinality(TileRows(t)) > GRID_HEIGHT

\* C19: no index outside the grid is used: no probe of check_collide (moves,
\* wall kicks, the look-ahead of the tick, the landing indicator) reaches a
\* row above the grid, for which check_collide has no guard and the grid
\* raises; and every tile of the active piece is at a column 0..GRID_WIDTH-1
\* and a row 0..GRID_HEIGHT-1 (a new piece taller than the grid excepted).
C19_InRange ==
  /\ ~crashed
  /\ \A c \in CellsOf(tetromino) :
       /\ c[1] >= 0 /\ c[1] < GRID_WIDTH
       /\ c[2] >= 0
       /\ c[2] < GRID_HEIGHT \/ TallerThanGrid(tetromino)

\* the square, whose pattern has an empty first row and so stands at
\* tile_y = -1, was moved to the left wall and down to the floor: probes
\* with a pattern row above the grid and with columns left of it were made
C19_Witness ==
  /\ game_state = STATE_PLAYING
  /\ last.op = "input"
  /\ tetromino.index = 3
  /\ tetromino.x = 0 - 1
  /\ tetromino.y = GRID_HEIGHT - 3
  /\ tetromino.y > 0 - 1
  /\ ~crashed

\* C20: after a tick that locked the piece, with its line clearing done and
\* the game going on, no row of the grid is full.
C20_NoFullRowLeft ==
  last.op = "tick" /\ last.ret = "lock" /\ game_state # STATE_GAME_OVER
    => \A y \in Rows : \E x \in Cols : tilegrid[y][x] = 0

\* C21: the phase becomes GameOver only in a tick that locked the piece
\* without clearing a line while the topmost tile of the piece was in row 0
\* or above; a lock of a piece with every tile in row 1 or below does not
\* end the game.
C21_GameOverOnlyAtTop ==
  [][game_state # STATE_GAME_OVER /\ game_state' = STATE_GAME_OVER
       => /\ last'.op = "tick"
          /\ last'.ret = "lock"
          /\ last'.a = 0
          /\ TopRow <= 0]_vars

\* the actions that move the piece
MoveActions == {ACTION_ROTATE, ACTION_LEFT, ACTION_RIGHT, ACTION_SOFT_DROP, ACTION_HARD_DROP}

\* everything a game holds, the process apart
GameState ==
  <<tilegrid, tetromino, tetromino_indicator, next_tetromino, game_state, score_window,
    level, current_lines, last_drop_time, pc, wipe_y, save_file, pieces>>

\* C22: in Paused the actions Rotate, Left, Right, SoftDrop and HardDrop
\* leave piece, grid, score, level, counter of lines and phase as they were,
\* and the phase goes from Paused to Playing by the action Pause only; in
\* GameOver, between the steps of the wipe included, every action but Quit
\* leaves the whole state of the game as it was.
C22_PausedAndGameOverInputs ==
  [][/\ game_state = STATE_PAUSED /\ (\E action \in MoveActions : do_action(action))
          => UNCHANGED <<tetromino, tilegrid, score_window, level, current_lines, game_state>>
     /\ game_state = STATE_PAUSED /\ game_state' = STATE_PLAYING
          => do_action(ACTION_PAUSE)
     /\ game_state = STATE_GAME_OVER /\ (\E action \in Actions \ {ACTION_QUIT} : do_action(action))
          => UNCHANGED GameState /\ ~reloaded']_vars

\* an action arrived in GameOver after the wipe had grayed more than the
\* bottom row and before it grayed the top row
C22_Witness ==
  /\ game_state = STATE_GAME_OVER
  /\ last.op = "input"
  /\ ~reloaded
  /\ pc = "wipe"
  /\ wipe_y > 0
  /\ wipe_y < GRID_HEIGHT - 1

\* C23: a soft drop in Playing moves the piece down one row when that is
\* free and changes nothing otherwise; it places no piece and leaves the
\* score alone. A soft or hard drop that moved the piece sets the mark
\* last_drop_time; only the tick task clears the mark, in a step that waits
\* and moves nothing, and a tick moves or locks the piece only when it finds
\* the mark clear.
C23_SoftDropAndResync ==
  [][/\ game_state = STATE_PLAYING /\ do_action(ACTION_SOFT_DROP)
          => /\ tetromino' = IF Blocked(0, 1) THEN tetromino
                             ELSE [tetromino EXCEPT !.y = tetromino.y + 1]
             /\ UNCHANGED <<tilegrid, tetromino_indicator, next_tetromino, game_state,
                            score_window, level, current_lines, pieces>>
             /\ last_drop_time' = (last_drop_time \/ ~Blocked(0, 1))
     /\ game_state = STATE_PLAYING /\ do_action(ACTION_HARD_DROP) /\ tetromino'.y > tetromino.y
          => last_drop_time'
     /\ last_drop_time /\ ~last_drop_time'
          => /\ last'.op = "tick"
             /\ last'.ret = "sync"
             /\ pc' = "sync"
             /\ UNCHANGED <<tilegrid, tetromino, score_window, level, current_lines,
                            game_state, pieces>>
     /\ last'.op = "tick" /\ last'.ret \in {"drop", "lock"}
          => ~last_drop_time /\ ~last_drop_time']_vars

\* a soft drop moved the piece (the score is still 0, so no hard drop did)
\* and the tick task has not yet consumed the mark
C23_Witness ==
  /\ game_state = STATE_PLAYING
  /\ last.op = "input"
  /\ last_drop_time
  /\ score_window.score = 0
  /\ TopRow > 0

\* a step that spawned a piece: reset_game or the lock of a tick
Spawned == pieces' = pieces + 1

\* C24: at every spawn, at the start of a game and after a lock that does
\* not end it, the new active piece has the shape index the preview held
\* before, the base pattern of that shape, x = (GRID_WIDTH - 4) \div 2 and
\* its topmost tile in row 0; the preview then holds an index in 0..6.
C24_Spawn ==
  [][Spawned
       => /\ tetromino'.index = next_tetromino.index
          /\ tetromino'.rotation = 0
          /\ \A y \in TSize : \A x \in TSize :
               (tetromino'.tg[y][x] # 0) = (TETROMINOS[tetromino'.index + 1].pattern[y + 1][x + 1] # 0)
          /\ tetromino'.x = (GRID_WIDTH - 4) \div 2
          /\ \E c \in CellsOf(tetromino') : c[2] = 0
          /\ \A c \in CellsOf(tetromino') : c[2] >= 0
          /\ ~tetromino'.hidden
          /\ next_tetromino'.index \in 0..6]_vars

\* the tick that locked a piece and cleared a line spawned the next piece
\* over a grid that still holds tiles
C24_Witness ==
  /\ last.op = "tick"
  /\ last.ret = "lock"
  /\ last.a > 0
  /\ pieces = 1
  /\ ~tetromino.hidden
  /\ tetromino.rotation = 0
  /\ tilegrid # EmptyGrid
  /\ game_state = STATE_PLAYING

\* the cell (y, x) of the base pattern of a shape after n of the program's
\* right rotations, each of which sets new[y][x] = old[x][3 - y]
Turned(index, n, y, x) ==
  LET base == TETROMINOS[index + 1].pattern IN
  CASE n = 0 -> base[y + 1][x + 1]
    [] n = 1 -> base[x + 1][3 - y + 1]
    [] n = 2 -> base[3 - y + 1][3 - x + 1]
    [] n = 3 -> base[3 - x + 1][y + 1]

\* a piece object shows the base pattern of its shape turned as often as
\* its counter says, which is one of 0..3, and has 4 tiles
Consistent(t) ==
  /\ t.rotation \in 0..3
  /\ \A y \in TSize, x \in TSize :
       (t.tg[y][x] # 0) = (Turned(t.index, t.rotation, y, x) # 0)
  /\ Cardinality({c \in TSize \X TSize : t.tg[c[1]][c[2]] # 0}) = 4

\* C25: the rotation counter of the active piece, of the landing indicator
\* and of the preview is in 0..3 and the pattern each shows is the base
\* pattern of its shape index after that many right rotations of the
\* program, so it has exactly 4 tiles; a Rotate action that succeeds moves
\* the counter of the active piece by one modulo 4 and turns its pattern
\* once, one that fails leaves counter and pattern alone; the preview keeps
\* its counter when it is given a new shape index.
C25_RotationCounter ==
  /\ [](/\ Consistent(next_tetromino)
        /\ tetromino # None => Consistent(tetromino)
        /\ tetromino_indicator # None => Consistent(tetromino_indicator))
  /\ [][/\ next_tetromino'.rotation = next_tetromino.rotation
        /\ game_state = STATE_PLAYING /\ do_action(ACTION_ROTATE)
             => \/ tetromino'.rotation = tetromino.rotation /\ tetromino'.tg = tetromino.tg
                \/ /\ tetromino'.rotation = (tetromino.rotation + 1) % 4
                   /\ \A y \in TSize, x \in TSize :
                        tetromino'.tg[y][x] = tetromino.tg[x][3 - y]]_vars

\* the active piece, not a symmetric one, was rotated and the indicator
\* with it; the preview, whose counter is 3 since construction, has taken
\* the index drawn at the spawn
C25_Witness ==
  /\ game_state = STATE_PLAYING
  /\ last.op = "input"
  /\ tetromino.index = 1
  /\ tetromino.rotation = 1
  /\ tetromino_indicator.rotation = 1
  /\ next_tetromino.rotation = 3
  /\ next_tetromino.index = 0

\* C26: a tick that placed the active piece either ends the game or puts a
\* new piece in its place in the same step, so no later tick finds the
\* placed piece still active and places it again.
C26_LockedOnce ==
  [][last'.op = "tick" /\ last'.ret = "lock"
       => \/ game_state' = STATE_GAME_OVER
          \/ Spawned /\ ~tetromino'.hidden /\ AtSpawn(tetromino')]_vars

\* a tile of piece t lies on a tile of the grid
Overlaps(field, t) ==
  \E c \in CellsOf(t) : c[1] \in Cols /\ c[2] \in Rows /\ field[c[2]][c[1]] # 0

\* C27: in Playing no tile of the active piece lies on a tile of the grid,
\* and every run of a handler keeps it so: moves, rotations, drops,
\* ticks, and the spawn after a lock in the top rows.
C27_NoOverlap ==
  [][(/\ last'.op \in {"tick", "input"}
      /\ game_state = STATE_PLAYING
      /\ ~Overlaps(tilegrid, tetromino)
      /\ game_state' = STATE_PLAYING)
       => ~Overlaps(tilegrid', tetromino')]_vars

\* the active piece rests, no manual drop is waiting to be synchronised, and
\* the tick that is due would place it and spawn a piece beyond MaxPieces
LockDue ==
  /\ pieces = MaxPieces
  /\ Blocked(0, 1)
  /\ ~last_drop_time
  /\ pc \in {"loop", "sync"}

Occupied(t) == {c \in TSize \X TSize : t.tg[c[1]][c[2]] # 0}

IndicatorAgrees ==
  /\ tetromino_indicator.x = tetromino.x
  /\ Occupied(tetromino_indicator) = Occupied(tetromino)
  /\ tetromino_indicator.y = tetromino.y + FallDistance

Mask(keys) ==
  (IF 0 \in keys THEN 1 ELSE 0) + (IF 1 \in keys THEN 2 ELSE 0) + (IF 2 \in keys THEN 4 ELSE 0)

\* button_handler takes the event at the head of the queue
TakesEvent == events # <<>> /\ events' = Tail(events)

\* the event taken is a release and a press was taken since the last dispatch
EndsChord == TakesEvent /\ ~Head(events).pressed /\ button_log.keys # {}

\* C30: with press and release events of each button alternating and none
\* lost, button_pressed is always the bitmask, in 0..7, of the buttons whose
\* press was taken since the last dispatch, and BUTTON_MAP is never indexed
\* outside 0..7; the first release taken after one or more presses
\* dispatches exactly the BUTTON_MAP entry of that set of buttons to
\* do_action and clears the accumulator; a press, and a release taken while
\* the accumulator is 0 (a button still held after the dispatch), dispatch
\* nothing and leave the game as it is; no other step dispatches.
C30_ButtonChords ==
  /\ [](/\ button_pressed \in 0..7
        /\ button_pressed = Mask(button_log.keys)
        /\ button_log.op # "raise")
  /\ [][EndsChord
          => /\ button_log' = ButtonLog("dispatch", {}, BUTTON_MAP[Mask(button_log.keys) + 1])
             /\ button_log'.action \in Actions
             /\ do_action(button_log'.action)
             /\ crashed' \/ button_pressed' = 0]_vars
  /\ [][TakesEvent /\ ~EndsChord
          => /\ button_log'.op \in {"press", "skip"}
             /\ UNCHANGED game_vars]_vars
  /\ [][~TakesEvent => button_log' = button_log]_vars

\* buttons #1 and #2 were pressed in Playing, the release of one of them
\* paused the game, and the release of the other was taken and passed over
C30_Witness ==
  /\ game_state = STATE_PAUSED
  /\ button_log.op = "skip"
  /\ keys_down = {}
  /\ events = <<>>
  /\ button_pressed = 0

====
